---- MODULE Spec2Model ----
(***************************************************************************)
(* Model of src/dashboard-fix.py: the YOLODetectionSystem session, its     *)
(* control operations (start_detection, stop_detection, restart_detection  *)
(* and their socket handlers) and the background capture loop              *)
(* generate_frames.                                                        *)
(*                                                                         *)
(* Granularity.  The socket handlers are dispatched one at a time (the     *)
(* reference deployment's single dispatch); a handler is one step, except  *)
(* restart_detection, which is split at its time.sleep(0.5).  Each thread  *)
(* running generate_frames advances one Python statement group at a time   *)
(* and interleaves freely with the handlers, with the other loop threads   *)
(* and with the clock.                                                     *)
(*                                                                         *)
(* Camera handles are numbered 1..MaxHandles, 0 is None.  `opened` is the  *)
(* set of handles created by cv2.VideoCapture and not yet release()d.      *)
(* The clock `now` is time.time() in whole seconds.                        *)
(*                                                                         *)
(* Spec is the program in its whole environment.  SpecCtl and SpecOps are  *)
(* the program in narrower environments (which frames the detector sees,   *)
(* whether the clock moves), SpecStmt takes update_statistics statement by  *)
(* statement, SpecLoop is one capture loop on its own in its whole         *)
(* environment, SpecFrame is one loop iteration on every frame of a        *)
(* bounded set, SpecLabel the label classification on every label of a     *)
(* bounded set.                                                            *)
(***************************************************************************)
EXTENDS Integers, Sequences, FiniteSets, TLC

\* ------------------------------------------------------------------ bounds
MaxThreads == 2     \* thread slots for generate_frames
MaxHandles == 2     \* camera handle identities
Epoch == 4          \* value of time.time() at construction (far above 3.0)
Horizon == 4        \* seconds of wall-clock time explored
MaxFps == 1         \* cap on fps_counter between two resets
MaxLabelLen == 3    \* length of the exhaustively enumerated labels
MaxBoxes == 2       \* detections per frame in the exhaustively enumerated frames

\* ------------------------------------------------------- program constants
CountInterval == 3  \* update_statistics: current_time - last > 3.0
FpsInterval == 1    \* calculate_fps: current_time - fps_start_time >= 1.0

Threads == 1..MaxThreads
Handles == 1..MaxHandles
MaxTime == Epoch + Horizon

VARIABLES
    camera,              \* self.camera: 0 (None) or a handle
    is_running,          \* self.is_running
    opened,              \* handles acquired and not released
    current_frame,       \* self.current_frame: "none", "raw", "processed"
    detection_results,   \* self.detection_results
    fps_counter,         \* self.fps_counter
    fps_start_time,      \* self.fps_start_time
    last_detection_time, \* self.last_detection_time, -1 while the attribute is absent
    now,                 \* time.time()
    pc,                  \* per thread slot: position in generate_frames, "free" if no thread
    loc,                 \* per thread slot: locals of generate_frames / update_statistics
    overdue,             \* loop threads that were alive when stop_detection last ran
    ctl,                 \* dispatcher: "idle" or "restart_sleep"
    emitted,             \* events emitted by the last step, in order
    label,               \* classification harness: the label under test
    verdict              \* classification harness: "none", or is_defect of label

vars == <<camera, is_running, opened, current_frame, detection_results,
          fps_counter, fps_start_time, last_detection_time, now, pc, loc,
          overdue, ctl, emitted, label, verdict>>

sessVars == <<camera, is_running, opened>>
loopData == <<current_frame, detection_results, fps_counter, fps_start_time,
              last_detection_time>>
labelVars == <<label, verdict>>

\* ---------------------------------------------------------- labels (str)
\* A Python str is modelled as a sequence of one-character strings.
UpperChars == <<"A","B","C","D","E","F","G","H","I","J","K","L","M",
                "N","O","P","Q","R","S","T","U","V","W","X","Y","Z">>
LowerChars == <<"a","b","c","d","e","f","g","h","i","j","k","l","m",
                "n","o","p","q","r","s","t","u","v","w","x","y","z">>

\* str.lower() on one ASCII character
LowerChar(c) ==
    IF \E k \in 1..26 : UpperChars[k] = c
    THEN LowerChars[CHOOSE k \in 1..26 : UpperChars[k] = c]
    ELSE c

\* str.lower()
Lower(s) == [i \in 1..Len(s) |-> LowerChar(s[i])]

\* the `in` operator on two str: sub occurs in s as a contiguous slice
Contains(sub, s) ==
    \E i \in 1..(Len(s) - Len(sub) + 1) : SubSeq(s, i, i + Len(sub) - 1) = sub

S_defect == <<"d","e","f","e","c","t">>
S_sg == <<"s","g">>

\* defect_classes = ['sg-defect', 'sg_defect', 'sgdefect', 'sg defect', 'defect']
defect_classes ==
    { <<"s","g","-","d","e","f","e","c","t">>,
      <<"s","g","_","d","e","f","e","c","t">>,
      <<"s","g","d","e","f","e","c","t">>,
      <<"s","g"," ","d","e","f","e","c","t">>,
      S_defect }

\* is_defect with the 'sg' test made on the label as given, not lower-cased
is_defect_CaseSensitiveSg(class_name) ==
    \/ Lower(class_name) \in defect_classes
    \/ Contains(S_defect, Lower(class_name))
    \/ Contains(S_sg, class_name)

\* is_defect with the 'sg' test satisfied by an "s" followed anywhere later by
\* a "g", not only by the two letters side by side
is_defect_SgScattered(class_name) ==
    \/ Lower(class_name) \in defect_classes
    \/ Contains(S_defect, Lower(class_name))
    \/ \E i, j \in 1..Len(class_name) :
         i < j /\ Lower(class_name)[i] = "s" /\ Lower(class_name)[j] = "g"

\* the is_defect expression of process_detections
is_defect(class_name) ==
    \/ Lower(class_name) \in defect_classes
    \/ Contains(S_defect, Lower(class_name))
    \/ Contains(S_sg, Lower(class_name))

\* class names used as detector output and as classification inputs
L_SG_Defect == <<"S","G","-","D","e","f","e","c","t">>
L_phone == <<"p","h","o","n","e">>
L_Signal == <<"S","i","g","n","a","l">>

RECURSIVE SeqsUpTo(_, _)
SeqsUpTo(A, n) ==
    IF n = 0 THEN {<<>>}
    ELSE LET shorter == SeqsUpTo(A, n - 1)
         IN  shorter \cup {Append(s, a) : s \in {t \in shorter : Len(t) = n - 1}, a \in A}

Labels ==
    SeqsUpTo({"s", "g", "S", "G", "x"}, MaxLabelLen)
    \cup defect_classes
    \cup { L_SG_Defect, L_phone, L_Signal,
           <<"D","E","F","E","C","T">>,
           <<"S","G","_","D","E","F","E","C","T">>,
           <<"S","g","D","e","F","e","C","t">>,
           <<"n","o","d","e","f","e","c","t","s">>,
           <<"D","e","f","e","c","t","i","v","e">>,
           <<"d","e","f","e","c">>,
           <<"d","e","f"," ","e","c","t">>,
           <<"s","-","g">>,
           <<"M","S","G">>,
           <<"p","e","r","s","o","n">> }

\* frames: the class names of the detections the model returns for one frame
Frames ==
    { <<>>, <<L_SG_Defect, L_phone>>, <<L_phone, L_Signal>> }

\* ------------------------------------------------------------- the session
\* The fields the control operations read and write, as one record.
Session ==
    [camera |-> camera, is_running |-> is_running, opened |-> opened,
     detection_results |-> detection_results]

Min(S) == CHOOSE x \in S : \A y \in S : x <= y

\* the object cv2.VideoCapture would create next (0 when the model has none left)
FreshHandle ==
    LET free == Handles \ (opened \cup {camera})
    IN  IF free = {} THEN 0 ELSE Min(free)

\* what can happen inside the try block of initialize_camera
Outcomes == {"ok", "raise_open", "raise_set"}

\* initialize_camera: "raise_open" is cv2.VideoCapture raising (self.camera is
\* not assigned), "raise_set" is one of the three set() calls raising (self.camera
\* is already the new capture).
initialize_camera(s, outcome, h) ==
    CASE outcome = "ok" ->
           [s |-> [s EXCEPT !.camera = h, !.opened = @ \cup {h}], ok |-> TRUE]
      [] outcome = "raise_open" ->
           [s |-> s, ok |-> FALSE]
      [] outcome = "raise_set" ->
           [s |-> [s EXCEPT !.camera = h, !.opened = @ \cup {h}], ok |-> FALSE]

\* start_detection setting the running flag without looking at the result of
\* initialize_camera
start_detection_FlagFirst(s, outcome, h) ==
    LET r == initialize_camera(s, outcome, h)
    IN  IF r.ok
        THEN [s |-> [r.s EXCEPT !.is_running = TRUE], ret |-> TRUE, spawn |-> 1]
        ELSE [s |-> [r.s EXCEPT !.is_running = TRUE], ret |-> FALSE, spawn |-> 0]

\* start_detection zeroing the cumulative counters of a new run
start_detection_ResetsStats(s, outcome, h) ==
    LET r == initialize_camera(s, outcome, h)
    IN  IF r.ok
        THEN [s |-> [r.s EXCEPT !.is_running = TRUE,
                                !.detection_results.stats =
                                    [total |-> 0, pass |-> 0, ng |-> 0]],
              ret |-> TRUE, spawn |-> 1]
        ELSE [s |-> r.s, ret |-> FALSE, spawn |-> 0]

\* start_detection: the resulting session, the return value and the number of
\* threads it starts
start_detection(s, outcome, h) ==
    LET r == initialize_camera(s, outcome, h)
    IN  IF r.ok
        THEN [s |-> [r.s EXCEPT !.is_running = TRUE], ret |-> TRUE, spawn |-> 1]
        ELSE [s |-> r.s, ret |-> FALSE, spawn |-> 0]

\* stop_detection dropping the handle without camera.release()
stop_detection_NoRelease(s) == [s EXCEPT !.is_running = FALSE, !.camera = 0]

\* stop_detection
stop_detection(s) ==
    IF s.camera # 0
    THEN [s EXCEPT !.is_running = FALSE, !.opened = @ \ {s.camera}, !.camera = 0]
    ELSE [s EXCEPT !.is_running = FALSE]

\* restart_detection without the clock: stop, then start
restart_detection(s, outcome, h) == start_detection(stop_detection(s), outcome, h)

Active == {i \in Threads : pc[i] # "free"}
FreeSlots == Threads \ Active

NoLocals == [status |-> "", defects |-> FALSE, t |-> 0]

SystemStatus(running, message) ==
    [event |-> "system_status", is_running |-> running, message |-> message]

\* assignment of a session record to the session's fields
SetSession(s) ==
    /\ camera' = s.camera
    /\ is_running' = s.is_running
    /\ opened' = s.opened
    /\ detection_results' = s.detection_results

\* threading.Thread(target=self.generate_frames).start(), n times (n is 0 or 1)
Spawn(n) ==
    IF n = 0 THEN pc' = pc
    ELSE pc' = [pc EXCEPT ![Min(FreeSlots)] = "check"]

\* The start of start_detection is possible in the model only while it has a
\* handle identity and a thread slot left.
CanStart(outcome) ==
    /\ outcome # "raise_open" => FreshHandle # 0
    /\ outcome = "ok" => FreeSlots # {}

\* handle_start_detection with the given outcome of initialize_camera
StartStep(outcome) ==
    /\ ctl = "idle"
    /\ CanStart(outcome)
    /\ LET r == start_detection(Session, outcome, FreshHandle)
       IN  /\ SetSession(r.s)
           /\ Spawn(r.spawn)
           /\ emitted' = << IF r.ret THEN SystemStatus(TRUE, "none")
                            ELSE SystemStatus(FALSE, "Failed to initialize camera") >>
    /\ UNCHANGED <<current_frame, fps_counter, fps_start_time, last_detection_time,
                   now, loc, overdue, ctl, labelVars>>

\* handle_start_detection
HandleStart == \E outcome \in Outcomes : StartStep(outcome)

\* handle_stop_detection
HandleStop ==
    /\ ctl = "idle"
    /\ SetSession(stop_detection(Session))
    /\ overdue' = Active
    /\ emitted' = << SystemStatus(FALSE, "none") >>
    /\ UNCHANGED <<current_frame, fps_counter, fps_start_time, last_detection_time,
                   now, pc, loc, ctl, labelVars>>

\* handle_restart_system, up to the time.sleep(0.5) of restart_detection
RestartStop ==
    /\ ctl = "idle"
    /\ SetSession(stop_detection(Session))
    /\ overdue' = Active
    /\ ctl' = "restart_sleep"
    /\ emitted' = <<>>
    /\ UNCHANGED <<current_frame, fps_counter, fps_start_time, last_detection_time,
                   now, pc, loc, labelVars>>

\* handle_restart_system, from the end of the sleep
RestartStart ==
    /\ ctl = "restart_sleep"
    /\ \E outcome \in Outcomes :
         /\ CanStart(outcome)
         /\ LET r == start_detection(Session, outcome, FreshHandle)
            IN  /\ SetSession(r.s)
                /\ Spawn(r.spawn)
                /\ emitted' = << IF r.ret THEN SystemStatus(TRUE, "none")
                                 ELSE SystemStatus(FALSE, "Failed to restart detection") >>
    /\ ctl' = "idle"
    /\ UNCHANGED <<current_frame, fps_counter, fps_start_time, last_detection_time,
                   now, loc, overdue, labelVars>>

\* ------------------------------------------------------ the capture loop
\* a step that emits nothing
Quiet == emitted' = <<>>

\* generate_frames returns (or dies): the thread is gone
Exit(i) ==
    /\ pc' = [pc EXCEPT ![i] = "free"]
    /\ loc' = [loc EXCEPT ![i] = NoLocals]
    /\ overdue' = overdue \ {i}

Goto(i, where) == pc' = [pc EXCEPT ![i] = where]

\* the loop over the boxes with defects_detected = is_defect in place of the
\* conditional assignment: the last box decides
RECURSIVE ScanBoxesLastWins(_, _, _)
ScanBoxesLastWins(names, k, flag) ==
    IF k > Len(names) THEN flag
    ELSE ScanBoxesLastWins(names, k + 1, is_defect(names[k]))

\* process_detections: the loop over the boxes, from box k on, with the flag so far
RECURSIVE ScanBoxes(_, _, _)
ScanBoxes(names, k, flag) ==
    IF k > Len(names) THEN flag
    ELSE ScanBoxes(names, k + 1, IF is_defect(names[k]) THEN TRUE ELSE flag)

\* process_detections: (defects_detected, detections)
process_detections(names) ==
    [defects_detected |-> ScanBoxes(names, 1, FALSE), detections |-> names]

\* determine_status
determine_status(defects_detected) == IF defects_detected THEN "NG" ELSE "PASS"

\* update_statistics: the de-bounce test
count_due(current_time, last_time) == current_time - last_time > CountInterval

\* round(ng / max(1, total) * 100, 1), in tenths of a percent (ties to even)
ng_rate(stats) ==
    LET d == IF stats.total > 1 THEN stats.total ELSE 1
        q == (1000 * stats.ng) \div d
        r == (1000 * stats.ng) % d
    IN  IF 2 * r > d \/ (2 * r = d /\ q % 2 = 1) THEN q + 1 ELSE q

\* the loop condition with a loop that drops the handle when it leaves:
\* self.camera = None after the while
LoopCheck_DropsCamera(i) ==
    /\ pc[i] = "check"
    /\ IF is_running /\ camera # 0
       THEN Goto(i, "read") /\ UNCHANGED <<loc, overdue, camera>>
       ELSE Exit(i) /\ camera' = 0
    /\ Quiet
    /\ UNCHANGED <<is_running, opened, loopData, now, ctl, labelVars>>

\* while self.is_running and self.camera is not None
LoopCheck(i) ==
    /\ pc[i] = "check"
    /\ IF is_running /\ camera # 0
       THEN Goto(i, "read") /\ UNCHANGED <<loc, overdue>>
       ELSE Exit(i)
    /\ Quiet
    /\ UNCHANGED <<sessVars, loopData, now, ctl, labelVars>>

\* the read with self.is_running = False before the break: a loop that marks
\* the session stopped when the camera gives no frame
LoopRead_ClearsFlag(i) ==
    /\ pc[i] = "read"
    /\ \E got \in BOOLEAN :
         /\ got => camera \in opened
         /\ IF got
            THEN Goto(i, "infer") /\ UNCHANGED <<loc, overdue, is_running>>
            ELSE Exit(i) /\ is_running' = FALSE
    /\ Quiet
    /\ UNCHANGED <<camera, opened, loopData, now, ctl, labelVars>>

\* ret, frame = self.camera.read(); if not ret: break
\* With self.camera None the call raises AttributeError outside the try and the
\* thread dies; a released capture returns ret False.
LoopRead(i) ==
    /\ pc[i] = "read"
    /\ \E got \in BOOLEAN :
         /\ got => camera \in opened
         /\ IF got
            THEN Goto(i, "infer") /\ UNCHANGED <<loc, overdue>>
            ELSE Exit(i)
    /\ Quiet
    /\ UNCHANGED <<sessVars, loopData, now, ctl, labelVars>>

\* the model call raising with the try statement around the whole loop
\* instead of inside it: the handler runs and generate_frames returns
LoopInferRaise_LeavesLoop(i) ==
    /\ pc[i] = "infer"
    /\ current_frame' = "raw"
    /\ Exit(i)
    /\ Quiet
    /\ UNCHANGED <<sessVars, detection_results, fps_counter, fps_start_time,
                   last_detection_time, now, ctl, labelVars>>

\* results = self.model(frame, conf=0.5) raising: the except branch, then the sleep
LoopInferRaise(i) ==
    /\ pc[i] = "infer"
    /\ current_frame' = "raw"
    /\ Goto(i, "check")
    /\ Quiet
    /\ UNCHANGED <<sessVars, detection_results, fps_counter, fps_start_time,
                   last_detection_time, now, loc, overdue, ctl, labelVars>>

\* the model call returning the detections of one of `frames`, process_detections,
\* determine_status and the three assignments to self.detection_results
LoopInfer(i, frames) ==
    /\ pc[i] = "infer"
    /\ \E names \in frames :
         LET r == process_detections(names)
             current_status == determine_status(r.defects_detected)
         IN  /\ detection_results' =
                    [detection_results EXCEPT !.has_defects = r.defects_detected,
                                              !.detections = r.detections,
                                              !.status = current_status]
             /\ loc' = [loc EXCEPT ![i] = [status |-> current_status,
                                           defects |-> r.defects_detected, t |-> 0]]
    /\ Goto(i, "stat")
    /\ Quiet
    /\ UNCHANGED <<sessVars, current_frame, fps_counter, fps_start_time,
                   last_detection_time, now, overdue, ctl, labelVars>>

\* update_statistics up to its test: current_time, the hasattr default, the test
LoopStat(i) ==
    /\ pc[i] = "stat"
    /\ LET last_time == IF last_detection_time = -1 THEN 0 ELSE last_detection_time
       IN  /\ last_detection_time' = last_time
           /\ IF count_due(now, last_time)
              THEN Goto(i, "count") /\ loc' = [loc EXCEPT ![i].t = now]
              ELSE Goto(i, "publish") /\ loc' = loc
    /\ Quiet
    /\ UNCHANGED <<sessVars, current_frame, detection_results, fps_counter,
                   fps_start_time, now, overdue, ctl, labelVars>>

\* update_statistics after its test: the stats record with 'total' and the
\* counter of the status incremented
counted(stats, status) ==
    LET s1 == [stats EXCEPT !.total = @ + 1]
    IN  IF status = "NG" THEN [s1 EXCEPT !.ng = @ + 1]
        ELSE IF status = "PASS" THEN [s1 EXCEPT !.pass = @ + 1]
        ELSE s1

\* update_statistics, the body of its if: the increments and
\* self.last_detection_time = current_time
LoopCount(i) ==
    /\ pc[i] = "count"
    /\ detection_results' =
         [detection_results EXCEPT !.stats = counted(@, loc[i].status)]
    /\ last_detection_time' = loc[i].t
    /\ loc' = [loc EXCEPT ![i].t = 0]
    /\ Goto(i, "publish")
    /\ Quiet
    /\ UNCHANGED <<sessVars, current_frame, fps_counter, fps_start_time, now,
                   overdue, ctl, labelVars>>

\* update_statistics, the body of its if, statement by statement.  First
\* self.detection_results['stats']['total'] += 1
LoopCountTotal(i) ==
    /\ pc[i] = "count"
    /\ detection_results' = [detection_results EXCEPT !.stats.total = @ + 1]
    /\ Goto(i, "kind")
    /\ Quiet
    /\ UNCHANGED <<sessVars, current_frame, fps_counter, fps_start_time,
                   last_detection_time, now, loc, overdue, ctl, labelVars>>

\* then the if/elif on status with its increment of 'ng' or 'pass', and
\* self.last_detection_time = current_time
LoopCountKind(i) ==
    /\ pc[i] = "kind"
    /\ detection_results' =
         [detection_results EXCEPT
            !.stats.ng = IF loc[i].status = "NG" THEN @ + 1 ELSE @,
            !.stats.pass = IF loc[i].status = "PASS" THEN @ + 1 ELSE @]
    /\ last_detection_time' = loc[i].t
    /\ loc' = [loc EXCEPT ![i].t = 0]
    /\ Goto(i, "publish")
    /\ Quiet
    /\ UNCHANGED <<sessVars, current_frame, fps_counter, fps_start_time, now,
                   overdue, ctl, labelVars>>

\* calculate_fps: the new (fps_counter, fps_start_time, fps)
calculate_fps(counter, start, fps, current_time) ==
    IF current_time - start >= FpsInterval
    THEN [fps_counter |-> 0, fps_start_time |-> current_time, fps |-> counter + 1]
    ELSE [fps_counter |-> counter + 1, fps_start_time |-> start, fps |-> fps]

DetectionResult(i) ==
    [event |-> "detection_result",
     status |-> loc[i].status,
     defects_detected |-> loc[i].defects,
     pass_count |-> detection_results.stats.pass,
     ng_count |-> detection_results.stats.ng,
     total_count |-> detection_results.stats.total,
     ng_rate |-> ng_rate(detection_results.stats)]

VideoFrame == [event |-> "video_frame"]

\* the rest of the iteration with the two socketio.emit calls exchanged
LoopPublish_VideoFirst(i, encodings) ==
    /\ pc[i] = "publish"
    /\ fps_counter < MaxFps \/ now - fps_start_time >= FpsInterval
    /\ LET f == calculate_fps(fps_counter, fps_start_time, detection_results.fps, now)
       IN  /\ fps_counter' = f.fps_counter
           /\ fps_start_time' = f.fps_start_time
           /\ detection_results' = [detection_results EXCEPT !.fps = f.fps]
    /\ current_frame' = "processed"
    /\ \E encoded \in encodings :
         emitted' = IF encoded THEN << VideoFrame, DetectionResult(i) >> ELSE <<>>
    /\ Goto(i, "check")
    /\ loc' = [loc EXCEPT ![i] = NoLocals]
    /\ UNCHANGED <<sessVars, last_detection_time, now, overdue, ctl, labelVars>>

\* The rest of the iteration: calculate_fps, the annotation,
\* self.current_frame = processed_frame.copy(), cv2.imencode and, if it
\* succeeded, the two socketio.emit calls; then time.sleep(0.033) and back to
\* the loop condition.  `encodings` are the results cv2.imencode may give.
\* At most MaxFps frames are counted within one interval.
LoopPublish(i, encodings) ==
    /\ pc[i] = "publish"
    /\ fps_counter < MaxFps \/ now - fps_start_time >= FpsInterval
    /\ LET f == calculate_fps(fps_counter, fps_start_time, detection_results.fps, now)
       IN  /\ fps_counter' = f.fps_counter
           /\ fps_start_time' = f.fps_start_time
           /\ detection_results' = [detection_results EXCEPT !.fps = f.fps]
    /\ current_frame' = "processed"
    /\ \E encoded \in encodings :
         emitted' = IF encoded THEN << DetectionResult(i), VideoFrame >> ELSE <<>>
    /\ Goto(i, "check")
    /\ loc' = [loc EXCEPT ![i] = NoLocals]
    /\ UNCHANGED <<sessVars, last_detection_time, now, overdue, ctl, labelVars>>

\* one second of wall-clock time passes
Tick ==
    /\ now < MaxTime
    /\ now' = now + 1
    /\ Quiet
    /\ UNCHANGED <<sessVars, loopData, pc, loc, overdue, ctl, labelVars>>

\* ------------------------------------------------------- specification
\* YOLODetectionSystem.__init__, and no thread, no handler, no event yet
Constructed ==
    /\ camera = 0
    /\ is_running = FALSE
    /\ opened = {}
    /\ current_frame = "none"
    /\ detection_results =
         [has_defects |-> FALSE, detections |-> <<>>, fps |-> 0,
          stats |-> [total |-> 0, pass |-> 0, ng |-> 0], status |-> "PASS"]
    /\ fps_counter = 0
    /\ fps_start_time = Epoch
    /\ last_detection_time = -1
    /\ now = Epoch
    /\ pc = [i \in Threads |-> "free"]
    /\ loc = [i \in Threads |-> NoLocals]
    /\ overdue = {}
    /\ ctl = "idle"
    /\ emitted = <<>>

Init ==
    /\ Constructed
    /\ label = <<>>
    /\ verdict = "none"

Control ==
    \/ HandleStart
    \/ HandleStop
    \/ RestartStop
    \/ RestartStart

\* one step of the generate_frames thread in slot i, the detector never raising
Loop(i, frames, encodings) ==
    \/ LoopCheck(i)
    \/ LoopRead(i)
    \/ LoopInfer(i, frames)
    \/ LoopStat(i)
    \/ LoopCount(i)
    \/ LoopPublish(i, encodings)

Next ==
    \/ Control
    \/ \E i \in Threads : Loop(i, Frames, BOOLEAN)
    \/ \E i \in Threads : LoopInferRaise(i)
    \/ Tick

Spec == Init /\ [][Next]_vars

\* The same program in an environment where every frame is empty of detections,
\* the detector never raises and cv2.imencode always succeeds: the control
\* operations, the loop threads and the clock are unrestricted.
NoDetections == {<<>>}
Encodes == {TRUE}

NextCtl ==
    \/ Control
    \/ \E i \in Threads : Loop(i, NoDetections, Encodes)
    \/ Tick

SpecCtl == Init /\ [][NextCtl]_vars

\* The same environment within one clock second: the control operations and the
\* loop threads in every interleaving, the clock standing still.
NextOps ==
    \/ Control
    \/ \E i \in Threads : Loop(i, NoDetections, Encodes)

SpecOps == Init /\ [][NextOps]_vars

\* The program with update_statistics taken statement by statement: the
\* control operations and the loop threads in every interleaving, on every
\* frame of Frames, within one clock second.
LoopByStatement(i, frames, encodings) ==
    \/ LoopCheck(i)
    \/ LoopRead(i)
    \/ LoopInfer(i, frames)
    \/ LoopStat(i)
    \/ LoopCountTotal(i)
    \/ LoopCountKind(i)
    \/ LoopPublish(i, encodings)

NextStmt ==
    \/ Control
    \/ \E i \in Threads : LoopByStatement(i, Frames, Encodes)

SpecStmt == Init /\ [][NextStmt]_vars

\* One iteration of the loop body on every frame of AllFrames: the session as
\* start_detection and the first two steps of generate_frames leave it (one
\* thread, which has just read a frame), then the iteration up to its sleep.
FrameLabels ==
    { L_phone, L_SG_Defect, L_Signal, S_defect, <<"M","S","G">>,
      <<"p","e","r","s","o","n">> }

AllFrames == SeqsUpTo(FrameLabels, MaxBoxes)

FrameRead ==
    /\ camera = 1
    /\ is_running = TRUE
    /\ opened = {1}
    /\ current_frame = "none"
    /\ detection_results =
         [has_defects |-> FALSE, detections |-> <<>>, fps |-> 0,
          stats |-> [total |-> 0, pass |-> 0, ng |-> 0], status |-> "PASS"]
    /\ fps_counter = 0
    /\ fps_start_time = Epoch
    /\ last_detection_time = -1
    /\ now = Epoch
    /\ pc = [i \in Threads |-> IF i = 1 THEN "infer" ELSE "free"]
    /\ loc = [i \in Threads |-> NoLocals]
    /\ overdue = {}
    /\ ctl = "idle"
    /\ emitted = <<>>
    /\ label = <<>>
    /\ verdict = "none"

NextFrame ==
    \E i \in Threads :
        \/ LoopInfer(i, AllFrames)
        \/ LoopInferRaise(i)
        \/ LoopStat(i)
        \/ LoopCount(i)
        \/ LoopPublish(i, BOOLEAN)

SpecFrame == FrameRead /\ [][NextFrame]_vars

\* One capture loop on its own: the session as a successful start_detection
\* leaves it (one thread at its loop condition), then the loop in its whole
\* environment and the clock, with no further control operation.
Started ==
    /\ camera = 1
    /\ is_running = TRUE
    /\ opened = {1}
    /\ current_frame = "none"
    /\ detection_results =
         [has_defects |-> FALSE, detections |-> <<>>, fps |-> 0,
          stats |-> [total |-> 0, pass |-> 0, ng |-> 0], status |-> "PASS"]
    /\ fps_counter = 0
    /\ fps_start_time = Epoch
    /\ last_detection_time = -1
    /\ now = Epoch
    /\ pc = [i \in Threads |-> IF i = 1 THEN "check" ELSE "free"]
    /\ loc = [i \in Threads |-> NoLocals]
    /\ overdue = {}
    /\ ctl = "idle"
    /\ emitted = << SystemStatus(TRUE, "none") >>
    /\ label = <<>>
    /\ verdict = "none"

NextLoop ==
    \/ \E i \in Threads : Loop(i, Frames, BOOLEAN)
    \/ \E i \in Threads : LoopInferRaise(i)
    \/ Tick

SpecLoop == Started /\ [][NextLoop]_vars

\* The is_defect expression applied to every label of Labels.
InitLabel ==
    /\ Constructed
    /\ label \in Labels
    /\ verdict = "none"

Classify ==
    /\ verdict = "none"
    /\ verdict' = IF is_defect(label) THEN "defect" ELSE "ok"
    /\ UNCHANGED <<sessVars, loopData, now, pc, loc, overdue, ctl, emitted, label>>

SpecLabel == InitLabel /\ [][Classify]_vars

\* ------------------------------------------------------------------ claims
Stats == detection_results.stats

\* C1: in every reachable state at most one background capture loop is active.
C1_AtMostOneLoop == Cardinality(Active) <= 1

\* C2: start() on a running session is a no-op: it starts no thread, leaves the
\* cumulative counters, the running flag and the camera handle as they were.
C2_StartWhileRunningIsNoOp ==
    [][(HandleStart /\ is_running) =>
          /\ pc' = pc
          /\ Stats' = Stats
          /\ is_running' = is_running
          /\ camera' = camera]_vars

\* C3: start() on a stopped session: if camera acquisition fails it reports
\* failure, the session stays stopped and no loop is launched; if it succeeds
\* the running flag becomes true and exactly one loop is launched.
C3_StartFromStopped ==
    [][\A o \in Outcomes : (StartStep(o) /\ ~is_running) =>
          IF o = "ok"
          THEN /\ emitted' = << SystemStatus(TRUE, "none") >>
               /\ is_running'
               /\ Cardinality({i \in Threads : pc'[i] # pc[i]}) = 1
               /\ \A i \in Threads : pc'[i] # pc[i] => pc[i] = "free" /\ pc'[i] = "check"
          ELSE /\ emitted' = << SystemStatus(FALSE, "Failed to initialize camera") >>
               /\ ~is_running'
               /\ pc' = pc]_vars

\* a failed start has just acted on a stopped session with no loop
C3_Witness ==
    /\ emitted = << SystemStatus(FALSE, "Failed to initialize camera") >>
    /\ ~is_running
    /\ Active = {}

\* C4: after stop(), from any state, the running flag is false, the session
\* holds no camera handle and the handle it held has been released.
C4_StopReleases ==
    [][(HandleStop \/ RestartStop) =>
          /\ ~is_running'
          /\ camera' = 0
          /\ camera # 0 => camera \notin opened']_vars

\* stop has just acted on a session whose loop is still in flight
C4_Witness ==
    /\ emitted = << SystemStatus(FALSE, "none") >>
    /\ Active # {}
    /\ camera = 0

\* C5: a loop that was alive when stop() ran exits at its next check of the
\* loop condition, whatever start() or restart() did in between.
C5_StoppedLoopExits ==
    [][\A i \in Threads : (i \in overdue /\ LoopCheck(i)) => pc'[i] = "free"]_vars

\* what C6 compares: the return value, the running flag, the state of the camera
\* handle, the number of loops launched and the cumulative counters
View(r) ==
    [ret |-> r.ret,
     is_running |-> r.s.is_running,
     camera |-> IF r.s.camera = 0 THEN "none"
                ELSE IF r.s.camera \in r.s.opened THEN "open" ELSE "released",
     spawn |-> r.spawn,
     stats |-> r.s.detection_results.stats]

\* the handle cv2.VideoCapture would create for restart's start, after its stop
FreshAfterStop == Min(Handles \ stop_detection(Session).opened)

\* C6: restart() on a stopped session gives the same return value and session
\* state as start() from the same state, whether the acquisition succeeds or fails.
C6_RestartLikeStart ==
    (~is_running /\ ctl = "idle" /\ FreshHandle # 0) =>
        \A o \in Outcomes :
            View(restart_detection(Session, o, FreshAfterStop))
              = View(start_detection(Session, o, FreshHandle))

\* C7: no control operation changes the cumulative counters, and no step at
\* all decreases one of them.
C7_CountersPersist ==
    [][/\ Control => Stats' = Stats
       /\ Stats'.total >= Stats.total
       /\ Stats'.pass >= Stats.pass
       /\ Stats'.ng >= Stats.ng]_vars

\* a successful start (after an earlier session counted a unit) finds the
\* counters it left
C7_Witness ==
    /\ emitted = << SystemStatus(TRUE, "none") >>
    /\ Stats.total > 0

\* C8: total is incremented only if at least 3 seconds have elapsed since the
\* previous increment.
C8_IncrementsSpaced ==
    [][\A i \in Threads : LoopCount(i) =>
          \/ Stats.total = 0
          \/ loc[i].t - last_detection_time >= CountInterval]_vars

\* the detection_result events among the events of the last step
Results == {k \in 1..Len(emitted) : emitted[k].event = "detection_result"}

\* C9: for every processed frame the status is NG if and only if at least one
\* of its detections is classified as a defect, and PASS otherwise; the
\* has-defect flag, in the session and as published, agrees with the status.
C9_StatusIffDefect ==
    LET dets == detection_results.detections
        any == \E k \in 1..Len(dets) : is_defect(dets[k])
    IN  /\ detection_results.status = (IF any THEN "NG" ELSE "PASS")
        /\ detection_results.has_defects = (detection_results.status = "NG")
        /\ \A k \in Results :
             /\ emitted[k].status = detection_results.status
             /\ emitted[k].defects_detected = (emitted[k].status = "NG")

\* a frame whose first detection is a defect and whose last is not has been
\* processed and published
C9_Witness ==
    /\ detection_results.detections = <<L_SG_Defect, L_phone>>
    /\ Results # {}

\* the literal spellings the claim lists
C10_Literals ==
    { <<"s","g","-","d","e","f","e","c","t">>,
      <<"s","g","_","d","e","f","e","c","t">>,
      <<"s","g","d","e","f","e","c","t">>,
      <<"s","g"," ","d","e","f","e","c","t">> ,
      <<"d","e","f","e","c","t">> }

\* two characters equal up to ASCII case
SameLetter(a, b) ==
    \/ a = b
    \/ \E k \in 1..26 : {a, b} = {UpperChars[k], LowerChars[k]}

EqualsIgnoringCase(x, y) ==
    /\ Len(x) = Len(y)
    /\ \A k \in 1..Len(x) : SameLetter(x[k], y[k])

ContainsIgnoringCase(sub, x) ==
    \E a \in 1..Len(x) : \E b \in a..Len(x) :
        EqualsIgnoringCase(SubSeq(x, a, b), sub)

\* C10: a label is classified as a defect if and only if, compared
\* case-insensitively, it equals one of the literal spellings, or contains
\* "defect", or contains "sg".
C10_DefectIffMatch ==
    verdict # "none" =>
        (verdict = "defect" <=>
            \/ \E lit \in C10_Literals : EqualsIgnoringCase(label, lit)
            \/ ContainsIgnoringCase(<<"d","e","f","e","c","t">>, label)
            \/ ContainsIgnoringCase(<<"s","g">>, label))

\* an upper-case label that only contains "sg" has been classified as a defect
C10_Witness == label = <<"M","S","G">> /\ verdict = "defect"

\* C11: when the detector call raises, that cycle publishes no event, leaves
\* the cumulative counters and the status as they were, makes the unprocessed
\* frame the current frame, and the thread goes back to its loop condition
\* with the running flag untouched.
C11_DetectorRaiseSkipsCycle ==
    [][\A i \in Threads :
         LoopInferRaise(i) =>
           /\ emitted' = <<>>
           /\ detection_results'.stats = detection_results.stats
           /\ detection_results'.status = detection_results.status
           /\ current_frame' = "raw"
           /\ pc'[i] = "check"
           /\ is_running' = is_running]_vars

\* the detector has raised after an NG unit had been counted
C11_Witness ==
    /\ current_frame = "raw"
    /\ pc[1] = "check"
    /\ Stats.ng > 0
    /\ detection_results.status = "NG"

\* C12: a read that gives no frame ends the loop thread (a read through a
\* capture that is not open always does) and leaves the running flag as it
\* was; the flag goes from true to false only in a stop_detection step, that
\* of the stop handler or that of restart.
C12_ReadFailureEndsLoopOnly ==
    [][/\ \A i \in Threads :
            LoopRead(i) =>
              /\ pc'[i] = "free" \/ (pc'[i] = "infer" /\ camera \in opened)
              /\ is_running' = is_running
       /\ (is_running /\ ~is_running') => (HandleStop \/ RestartStop)]_vars

\* the session still marked running with its capture open and no loop thread
\* left: the only thread has ended on a failed read
C12_Witness ==
    /\ is_running
    /\ camera \in opened
    /\ Active = {}

\* C13: a failed camera read takes the session to Stopped: after the step in
\* which a loop thread reads no frame from the session's capture and ends,
\* the running flag is false.
C13_ReadFailureStops ==
    [][\A i \in Threads :
         (LoopRead(i) /\ camera # 0 /\ pc'[i] = "free") => ~is_running']_vars

\* the events of the last step are one status summary followed by one video
\* frame, the summary carrying the status, the defect flag and the counters
\* of the session as that step leaves them
PublishedPair(e) ==
    /\ Len(e) = 2
    /\ e[1].event = "detection_result"
    /\ e[2].event = "video_frame"
    /\ e[1].status = detection_results'.status
    /\ e[1].defects_detected = detection_results'.has_defects
    /\ e[1].pass_count = detection_results'.stats.pass
    /\ e[1].ng_count = detection_results'.stats.ng
    /\ e[1].total_count = detection_results'.stats.total

\* C14 as stated: every processed frame, that is every step that finishes an
\* iteration after the detector returned, publishes exactly the pair.
C14_EveryFramePublishesPair ==
    [][\A i \in Threads : LoopPublish(i, BOOLEAN) => PublishedPair(emitted')]_vars

\* C14, amended: a processed frame publishes either nothing (its JPEG
\* encoding failed) or exactly the pair, status summary first, with the
\* status, defect flag and counters as they stand after that frame's counter
\* update; and no other step publishes a status summary or a video frame, so
\* neither event ever appears without the other.
C14_PairOrNothing ==
    [][/\ \A i \in Threads :
            LoopPublish(i, BOOLEAN) => (emitted' = <<>> \/ PublishedPair(emitted'))
       /\ (\E k \in 1..Len(emitted') : emitted'[k].event # "system_status")
            => PublishedPair(emitted')]_vars

\* a pair has just been published for an NG frame that was counted
C14_Witness ==
    /\ Len(emitted) = 2
    /\ emitted[1].event = "detection_result"
    /\ emitted[1].status = "NG"
    /\ emitted[1].ng_count > 0
    /\ emitted[2].event = "video_frame"

\* C15: the step that answers a control signal (start, stop, or restart at
\* its end) emits exactly one system_status event whose is_running value is
\* the running flag the step leaves, and the event carries a failure message
\* only if the operation failed: no loop thread was started.
C15_OneTruthfulStatus ==
    [][(HandleStart \/ HandleStop \/ RestartStart) =>
         /\ Len(emitted') = 1
         /\ emitted'[1].event = "system_status"
         /\ emitted'[1].is_running = is_running'
         /\ emitted'[1].message # "none" =>
              (~emitted'[1].is_running /\ pc' = pc)]_vars

\* C16: the reported FPS never includes frames from more than one second of
\* wall-clock time: whenever the FPS value is recomputed from a counter that
\* already holds earlier frames (all counted since fps_start_time), no more
\* than one second has passed since fps_start_time.
C16_FpsWithinOneSecond ==
    [][\A i \in Threads :
         (/\ LoopPublish(i, BOOLEAN)
          /\ fps_counter > 0
          /\ now - fps_start_time >= FpsInterval)
         => now - fps_start_time <= FpsInterval]_vars

\* C17: every step of a capture loop, in any interleaving with the control
\* operations, leaves the camera handle and the running flag as they were.
C17_LoopLeavesSessionFields ==
    [][(\E i \in Threads : Loop(i, NoDetections, Encodes))
         => (camera' = camera /\ is_running' = is_running)]_vars

\* two loop threads were started, frames have been published, the first
\* thread has ended and the second is about to read: the session is still
\* running on its open capture
C17_Witness ==
    /\ is_running
    /\ camera \in opened
    /\ current_frame = "processed"
    /\ pc[1] = "free"
    /\ pc[2] = "read"

\* C18 as stated: of the example labels, "SG-Defect" is classified a defect,
\* "phone" is not, and "Signal" is a defect.
C18_SignalIsDefect ==
    verdict # "none" =>
      /\ label = L_SG_Defect => verdict = "defect"
      /\ label = L_phone => verdict = "ok"
      /\ label = L_Signal => verdict = "defect"

\* C18, amended: "SG-Defect" is classified a defect and "phone" is not;
\* "Signal" is not a defect either: lower-cased it is "signal", in which "s"
\* and "g" are not adjacent, and it does not contain "defect".
C18_ExampleLabels ==
    verdict # "none" =>
      /\ label = L_SG_Defect => verdict = "defect"
      /\ label = L_phone => verdict = "ok"
      /\ label = L_Signal => verdict = "ok"

\* "Signal" has been classified, as not a defect
C18_Witness == label = L_Signal /\ verdict = "ok"

\* C19: whenever no thread stands between the two increments of
\* update_statistics the counters satisfy total = pass + ng, and every
\* published status summary carries counts with total = pass + ng and
\* ng <= total and an NG rate (in tenths of a percent) between 0 and 100 %
\* that is 0 while total is 0.
C19_CountersAddUp ==
    /\ (\A i \in Threads : pc[i] # "kind") => Stats.total = Stats.pass + Stats.ng
    /\ \A k \in Results :
         /\ emitted[k].total_count = emitted[k].pass_count + emitted[k].ng_count
         /\ emitted[k].ng_count <= emitted[k].total_count
         /\ emitted[k].ng_rate \in 0..1000
         /\ emitted[k].total_count = 0 => emitted[k].ng_rate = 0

\* C20: whenever a loop thread executes self.camera.read(), the session's
\* camera handle is an open capture: it is not None and has not been released.
C20_ReadsThroughOpenHandle ==
    [][\A i \in Threads : LoopRead(i) => (camera # 0 /\ camera \in opened)]_vars

\* C21: every step leaves at most one capture open, and only the one the
\* session holds; a step that replaces the session's camera handle has
\* released the previous one; and the session holds an open capture only
\* while its running flag is true.
C21_OneOpenHandleHeldWhileRunning ==
    [][/\ Cardinality(opened') <= 1
       /\ opened' \subseteq {camera'}
       /\ (camera # 0 /\ camera' # camera) => camera \notin opened'
       /\ camera' \in opened' => is_running']_vars

====
